---- MODULE Spec2Model ----
(***************************************************************************)
(* Model of the ticket-printer check-in client.                            *)
(*                                                                         *)
(*  - get_printer_uuid          checkin/checkin.py:194-244 (hardened)      *)
(*  - get_printer_uuid (legacy) src/checkin.py:127-145                     *)
(*  - build_checkin_payload, validate_payload, post_payload, main          *)
(*                              checkin/checkin.py:247-303                 *)
(*  - the retry policy configured by _build_retrying_session               *)
(*                              checkin/checkin.py:118-130                 *)
(*                                                                         *)
(* Text is modelled as a sequence of one-character strings, so that        *)
(* str.strip() is a real conversion and not the identity.                  *)
(***************************************************************************)
EXTENDS Integers, Sequences, FiniteSets, TLC

\* ------------------------------------------------------------------ bounds
\* longest text initially stored in printer_uuid.txt
MaxLen == 2
\* number of standalone get_printer_uuid invocations explored
MaxCalls == 3
\* most filesystem operations failing within one invocation
MaxFaults == 2
\* largest value read from the clock by int(time.time())
MaxClock == 1

\* ------------------------------------------------------------- text model
Whitespace == {" ", "\n"}
Chars == {"a", " ", "\n"}

RECURSIVE LStrip(_)
LStrip(s) ==
  IF s = <<>> THEN <<>>
  ELSE IF Head(s) \in Whitespace THEN LStrip(Tail(s)) ELSE s

RECURSIVE RStrip(_)
RStrip(s) ==
  IF s = <<>> THEN <<>>
  ELSE IF s[Len(s)] \in Whitespace THEN RStrip(SubSeq(s, 1, Len(s) - 1)) ELSE s

\* str.strip(): drop leading and trailing whitespace
Strip(s) == RStrip(LStrip(s))

\* texts of length 0..n over Chars
TextsUpTo(n) == UNION {[1..k -> Chars] : k \in 0..n}

\* str(uuid.uuid1()): a fresh, non-empty, whitespace-free text per call;
\* the tick count of the generator stands for the embedded timestamp
UuidDigits == <<"1", "2", "3", "4", "5", "6", "7", "8", "9">>
Uuid1(n) == <<"u", UuidDigits[n]>>

\* ------------------------------------------------------- filesystem model
\* permission bits as integers: 0o700 = 448, 0o600 = 384
Mode700 == 448
Mode600 == 384
\* modes given to new entries by the process umask (0o022): 0o755, 0o644
NewDirMode == 493
NewFileMode == 420
\* mode & 0o077: the group/other bits are the low six bits
GroupOtherBits(mode) == mode % 64

\* the filesystem operations of get_printer_uuid that can fail individually
FsOps == {"exists_dir", "mkdir", "chmod_dir", "stat_dir",
          "exists_file", "read", "open_w", "write", "chmod_file"}
\* the sets of operations that fail during one invocation
FaultSets == {F \in SUBSET FsOps : Cardinality(F) <= MaxFaults}

VARIABLES
  fs,         \* the storage location: config dir and printer_uuid.txt
  uuidTicks,  \* number of uuid.uuid1() values generated so far
  prevCall,   \* the get_printer_uuid invocation before the last one
  lastCall,   \* the last get_printer_uuid invocation
  nCalls,     \* standalone invocations made so far
  \* ---- one check-in cycle: main() of checkin/checkin.py
  pc,           \* position in main
  releaseState, \* which of the three release messages main logged
  env_info,     \* the snapshot returned by gather_env_info
  printer_uuid, \* the identity main obtained
  payload,      \* the payload main built
  validation,   \* "pending", "accepted" or "rejected"
  attempts,     \* POST requests put on the wire in this cycle
  retryTotal,   \* Retry.total still available to the running request
  lastResp,     \* how the last attempt ended
  log,          \* the last record post_payload or main wrote to the log
  exitCode,     \* process exit code, -1 while main is running
  lastDelay,    \* what Retry.sleep slept before the coming attempt
  sent,         \* the JSON body the last attempt put on the wire
  checked_out,  \* the git tag the installation is at
  \* ---- the process environment
  clock,        \* the time, in seconds, time.time() would return
  open_handles, \* file handles and sockets opened and not yet closed
  twin,         \* a second cycle fed the same inputs, release result apart
  \* ---- payload functions applied to drawn inputs
  candidate,    \* a JSON object: drawn, or built by build_checkin_payload
  built,        \* the arguments candidate was built from, if it was built
  verdict,      \* what validate_schema answered for candidate
  \* ---- get_printer_uuid invocations running side by side
  race          \* each invocation's position and locals, and who wrote last

identityVars == <<fs, uuidTicks, prevCall, lastCall, nCalls>>
cycleVars == <<pc, releaseState, env_info, printer_uuid, payload, validation,
               attempts, retryTotal, lastResp, log, exitCode, lastDelay, sent,
               checked_out>>
envVars == <<clock, open_handles>>
twinVars == <<twin>>
pureVars == <<candidate, built, verdict>>
raceVars == <<race>>
vars == <<identityVars, cycleVars, pureVars, raceVars, envVars, twinVars>>

NoDir == [dirExists |-> FALSE, dirMode |-> 0,
          fileExists |-> FALSE, content |-> <<>>, fileMode |-> 0]

StorageStates ==
  {NoDir}
  \cup {[dirExists |-> TRUE, dirMode |-> dm,
         fileExists |-> FALSE, content |-> <<>>, fileMode |-> 0] :
          dm \in {448, 493}}
  \cup {[dirExists |-> TRUE, dirMode |-> dm,
         fileExists |-> TRUE, content |-> c, fileMode |-> fm] :
          dm \in {448, 493}, c \in TextsUpTo(MaxLen), fm \in {384, 420}}

NoCall == [variant |-> "none", faulty |-> FALSE, pre |-> NoDir,
           ret |-> <<>>, raised |-> FALSE, generated |-> FALSE,
           readOk |-> FALSE]

\* ------------------------------------------- get_printer_uuid (hardened)
\* os.path.exists(): False when the entry is absent or when stat fails
PathExists(present, statFails) == present /\ ~statFails

\* lines 205-221: ensure the config directory, never raising
EnsureDir(f, F) ==
  IF ~PathExists(f.dirExists, "exists_dir" \in F)
  THEN IF "mkdir" \in F
       THEN f
       ELSE LET made == [f EXCEPT !.dirExists = TRUE,
                                  !.dirMode = IF f.dirExists THEN f.dirMode
                                              ELSE NewDirMode]
            IN IF "chmod_dir" \in F THEN made
               ELSE [made EXCEPT !.dirMode = Mode700]
  ELSE IF "stat_dir" \in F THEN f
       ELSE IF GroupOtherBits(f.dirMode) # 0 /\ "chmod_dir" \notin F
            THEN [f EXCEPT !.dirMode = Mode700]
            ELSE f

\* variant of ReadExisting that forgets strip()
ReadExistingRaw(content) == content

\* line 226: existing = f.read().strip()
ReadExisting(content) == Strip(content)

\* lines 223-230: TRUE when the stored identifier is read and non-empty
ReadHit(f, F) ==
  /\ PathExists(f.dirExists /\ f.fileExists, "exists_file" \in F)
  /\ "read" \notin F
  /\ ReadExisting(f.content) # <<>>

\* line 234 alone: open(uuid_file, "w") creates the file or truncates it
OpenForWrite(f) ==
  [f EXCEPT !.fileExists = TRUE, !.content = <<>>,
            !.fileMode = IF f.fileExists THEN f.fileMode ELSE NewFileMode]

\* write(2) of text at offset 0 of a file holding content
WriteAt(content, text) ==
  text \o SubSeq(content, Len(text) + 1, Len(content))

\* variant of FlushWrite for a file opened in append mode
FlushWriteAppend(f, text) == [f EXCEPT !.content = f.content \o text]

\* line 235 and the end of the with block: the buffered text reaches the
\* file, at the offset of this handle, which is 0
FlushWrite(f, text) == [f EXCEPT !.content = WriteAt(f.content, text)]

\* variant of WriteUuid that never reaches the disk
WriteUuidLost(f, F, new_uuid) == f

\* lines 233-235: open(uuid_file, "w") truncates or creates the file, then
\* f.write(new_uuid); a failed open leaves the file alone, a failed write
\* leaves it truncated
WriteUuid(f, F, new_uuid) ==
  IF ~f.dirExists \/ "open_w" \in F THEN f
  ELSE LET opened == [f EXCEPT !.fileExists = TRUE, !.content = <<>>,
                               !.fileMode = IF f.fileExists THEN f.fileMode
                                            ELSE NewFileMode]
       IN IF "write" \in F THEN opened
          ELSE [opened EXCEPT !.content = new_uuid]

WriteOk(f, F) == f.dirExists /\ "open_w" \notin F /\ "write" \notin F

\* lines 236-239: os.chmod(uuid_file, 0o600), only after a complete write
ChmodFile(f, F) ==
  IF "chmod_file" \in F THEN f ELSE [f EXCEPT !.fileMode = Mode600]

\* lines 232-244: generate, persist best effort, return the new value
PersistNew(f, F, new_uuid) ==
  IF WriteOk(f, F) THEN ChmodFile(WriteUuid(f, F, new_uuid), F)
  ELSE WriteUuid(f, F, new_uuid)

\* the whole call: the storage afterwards and the outcome
get_printer_uuid(f, F, n) ==
  LET d == EnsureDir(f, F)
  IN IF ReadHit(d, F)
     THEN [post |-> d, ret |-> ReadExisting(d.content), raised |-> FALSE,
           generated |-> FALSE, readOk |-> TRUE]
     ELSE [post |-> PersistNew(d, F, Uuid1(n)), ret |-> Uuid1(n),
           raised |-> FALSE, generated |-> TRUE, readOk |-> FALSE]

\* --------------------------------------------- get_printer_uuid (legacy)
\* src/checkin.py:127-145: the same algorithm with no exception handling
Raised(f, generated) ==
  [post |-> f, ret |-> <<>>, raised |-> TRUE, generated |-> generated,
   readOk |-> FALSE]

legacy_get_printer_uuid(f, F, n) ==
  LET needDir == ~PathExists(f.dirExists, "exists_dir" \in F)
      d == IF needDir THEN [f EXCEPT !.dirExists = TRUE, !.dirMode = NewDirMode]
           ELSE f
  IN IF needDir /\ ("mkdir" \in F \/ f.dirExists)
     THEN Raised(f, FALSE)
     ELSE IF PathExists(d.fileExists, "exists_file" \in F) /\ "read" \in F
     THEN Raised(d, FALSE)
     ELSE IF /\ PathExists(d.fileExists, "exists_file" \in F)
             /\ Strip(d.content) # <<>>
     THEN [post |-> d, ret |-> Strip(d.content), raised |-> FALSE,
           generated |-> FALSE, readOk |-> TRUE]
     ELSE IF "open_w" \in F \/ "write" \in F
     THEN Raised(WriteUuid(d, F, Uuid1(n)), TRUE)
     ELSE [post |-> WriteUuid(d, F, Uuid1(n)), ret |-> Uuid1(n),
           raised |-> FALSE, generated |-> TRUE, readOk |-> FALSE]

\* ------------------------------------------------------ JSON values
\* a JSON value carries its type, as jsonschema sees it
JsonStr(x) == [type |-> "string", str |-> x]
JsonInt(n) == [type |-> "integer", num |-> n]
None == [type |-> "null"]

\* dict.get(key): the value, or None when the key is absent
Get(d, k) == IF k \in DOMAIN d THEN d[k] ELSE None

\* ------------------------------------------------ payload and its schema
\* lines 90-99
PAYLOAD_SCHEMA ==
  [type |-> "object",
   properties |-> [printer_uuid |-> "string", external_ip |-> "string",
                   status |-> "string", last_checkin |-> "integer"],
   required |-> {"printer_uuid", "external_ip", "status", "last_checkin"}]

\* variant of build_checkin_payload that reads the snapshot's "status" key
build_checkin_payload_status_key(env, uuid, now) ==
  [printer_uuid |-> uuid,
   external_ip |-> Get(env, "external_ip"),
   status |-> Get(env, "status"),
   last_checkin |-> JsonInt(now)]

\* lines 247-254; now is the value of int(time.time())
build_checkin_payload(env, uuid, now) ==
  [printer_uuid |-> uuid,
   external_ip |-> Get(env, "external_ip"),
   status |-> Get(env, "printer_status"),
   last_checkin |-> JsonInt(now)]

\* variant of MissingRequired that ignores the "required" keyword
MissingRequiredIgnored(instance, schema) == {}

\* the "required" keyword: the required keys the instance lacks
MissingRequired(instance, schema) == schema.required \ DOMAIN instance

\* the "properties" keyword: the present keys whose value has the wrong type
WrongType(instance, schema) ==
  {k \in DOMAIN instance \cap DOMAIN schema.properties :
     instance[k].type # schema.properties[k]}

\* schema_utils.validate_schema: True, or jsonschema.ValidationError
validate_schema(instance, schema) ==
  IF MissingRequired(instance, schema) = {} /\ WrongType(instance, schema) = {}
  THEN [valid |-> TRUE, missing |-> {}, mistyped |-> {}]
  ELSE [valid |-> FALSE, missing |-> MissingRequired(instance, schema),
        mistyped |-> WrongType(instance, schema)]

\* lines 257-259
validate_payload(p) == validate_schema(p, PAYLOAD_SCHEMA)

\* ------------------------------------------------------------ the inputs
PayloadKeys == {"printer_uuid", "external_ip", "status", "last_checkin"}
EnvKeys == {"external_ip", "last_checkin", "printer_status"}

\* what env_info.gather_env_info returns: three strings, placeholders and
\* error descriptions included
GatheredSnapshots ==
  {[external_ip |-> JsonStr(ip), last_checkin |-> JsonStr("2026-01-01T00:00:00Z"),
    printer_status |-> JsonStr(st)] :
     ip \in {"1.2.3.4", "Error: timeout"},
     st \in {"OK", "No default printer found\nError: lpstat"}}

\* snapshots a replaced collector may hand to main: keys may be absent
StubSnapshots ==
  {[k \in K |-> IF k = "external_ip" THEN JsonStr("1.2.3.4")
                ELSE IF k = "printer_status" THEN JsonStr("OK")
                ELSE JsonStr("2026-01-01T00:00:00Z")] :
     K \in (SUBSET EnvKeys) \ {EnvKeys}}
  \cup {[external_ip |-> JsonInt(7), last_checkin |-> JsonStr("t"),
         printer_status |-> JsonStr("OK")]}

Snapshots == GatheredSnapshots \cup StubSnapshots

\* arbitrary JSON objects over the payload keys
JsonValues == {JsonStr("x"), JsonInt(7), None}
CandidatePayloads ==
  UNION {[K -> JsonValues] : K \in SUBSET PayloadKeys}

\* ------------------------------------------------------ retry policy
\* lines 119-124: Retry(total=3, backoff_factor=0.5, status_forcelist=...,
\* allowed_methods=("GET", "POST"))
RetryTotal == 3
StatusForcelist == {429, 500, 502, 503, 504}
AllowedMethods == {"GET", "POST"}
\* urllib3's Retry.RETRY_AFTER_STATUS_CODES, in force because the
\* constructor call leaves respect_retry_after_header at its default
RetryAfterStatusCodes == {413, 429, 503}

\* how one attempt can end: a response with a status (and maybe a
\* Retry-After header) or a connection-level failure.  Redirects are not
\* modelled: the backend answers with a final status.
StatusResponses ==
  {[kind |-> "status", status |-> st, retry_after |-> ra] :
     st \in {200, 400, 404, 413, 429, 500, 502, 503, 504}, ra \in {FALSE}}
  \cup {[kind |-> "status", status |-> st, retry_after |-> TRUE] :
     st \in {200, 413, 503}}
ErrorResponses ==
  {[kind |-> k, status |-> 0, retry_after |-> FALSE] :
     k \in {"timeout", "refused", "reset"}}
Responses == StatusResponses \cup ErrorResponses
NoResp == [kind |-> "none", status |-> 0, retry_after |-> FALSE]

\* variant of IsRetry that retries every error status
IsRetryAnyError(method, r, total) ==
  method \in AllowedMethods /\ r.status >= 400

\* Retry.is_retry(method, status_code, has_retry_after)
IsRetry(method, r, total) ==
  /\ method \in AllowedMethods
  /\ \/ r.status \in StatusForcelist
     \/ total # 0 /\ r.retry_after /\ r.status \in RetryAfterStatusCodes

\* whether the adapter goes through Retry.increment after this attempt
WantsRetry(method, r, total) ==
  IF r.kind = "status" THEN IsRetry(method, r, total)
  ELSE method \in AllowedMethods

\* variant of IsExhausted that gives up one attempt early
IsExhaustedAtZero(total) == total <= 0

\* variant of Increment that does not count the retry
IncrementStuck(total) == total

\* Retry.increment: total - 1; Retry.is_exhausted: the new total is < 0
Increment(total) == total - 1

IsExhausted(total) == total < 0

\* variant of post_payload without the except clause
post_payload_uncaught(result, r) ==
  IF result = "response"
  THEN [level |-> "info", status |-> r.status, propagates |-> FALSE]
  ELSE [level |-> "none", status |-> r.status, propagates |-> TRUE]

\* variant of post_payload whose failure record drops the cause
post_payload_no_cause(result, r) ==
  IF result = "response"
  THEN [level |-> "info", status |-> r.status, propagates |-> FALSE]
  ELSE [level |-> "error", status |-> 0, propagates |-> FALSE]

\* lines 262-267: what post_payload does with the result of SESSION.post,
\* a response or an exception: both are logged and neither is re-raised
post_payload(result, r) ==
  IF result = "response"
  THEN [level |-> "info", status |-> r.status, propagates |-> FALSE]
  ELSE [level |-> "error", status |-> r.status, propagates |-> FALSE]

\* variant of AfterValidation that posts whatever the verdict
AfterValidationAlwaysPost(valid) == "post"

\* lines 297-303: where main goes after validate_payload
AfterValidation(valid) == IF valid THEN "post" ELSE "done"

\* lines 277-286: the three release messages
ReleaseMessage(latest_tag, current_tag) ==
  IF latest_tag # "" /\ current_tag # "" /\ latest_tag # current_tag
  THEN "update_available"
  ELSE IF latest_tag # "" /\ current_tag # "" THEN "up_to_date"
  ELSE "undetermined"

\* variant of AfterReleaseCheck that does what upgrade_if_new_release of
\* src/src/checkin.py does: check out the newer tag
AfterReleaseCheckUpgrading(latest_tag, current_tag, installed) ==
  IF ReleaseMessage(latest_tag, current_tag) = "update_available"
  THEN latest_tag ELSE installed

\* lines 275-286: the tag the installation is at after the release check;
\* main only logs, and never calls upgrade_if_new_release
AfterReleaseCheck(latest_tag, current_tag, installed) == installed

\* ---------------------------------------------------- delays of the Retry
\* line 121: backoff_factor = 0.5, in tenths of a second
BackoffFactorTenths == 5

NoDelay == [kind |-> "none", tenths |-> 0]

\* variant of Backoff that sleeps the base delay before the first retry
BackoffFromBase(n) == BackoffFactorTenths * 2 ^ (n - 1)

\* Retry.get_backoff_time after n consecutive failed attempts
Backoff(n) == IF n <= 1 THEN 0 ELSE BackoffFactorTenths * 2 ^ (n - 1)

\* Retry.sleep before the retry that follows failed attempt n: the delay
\* the server asked for, if it sent Retry-After, else the backoff
RetrySleep(r, n) ==
  IF r.kind = "status" /\ r.retry_after
  THEN [kind |-> "retry_after", tenths |-> 0]
  ELSE [kind |-> "backoff", tenths |-> Backoff(n)]

\* ------------------------------------------------------------ the clock
\* env_info.py:22-24: the time of gathering as text
get_last_checkin_time(now) == JsonStr(ToString(now) \o "Z")

\* env_info.py:39-45: gather_env_info stamps the snapshot it returns
StampSnapshot(snapshot, now) ==
  [k \in DOMAIN snapshot |->
     IF k = "last_checkin" THEN get_last_checkin_time(now) ELSE snapshot[k]]

\* variant of TransmittedBody that stamps the body when it is sent
TransmittedBodyRestamped(body, now) ==
  [k \in DOMAIN body |-> IF k = "last_checkin" THEN JsonInt(now) ELSE body[k]]

\* line 264: json=payload is serialised once, whenever the attempt is made
TransmittedBody(body, now) == body

\* ---------------------------------------------------- handles and sockets
\* lines 226 and 234: a file opened by "with open(...)" is closed when the
\* block is left, by return or by exception
HandlesAfterWith(open_before) == open_before

\* how lines 139-141 can end
LocalIpOutcomes == {"ok", "socket_fails", "connect_fails", "getsockname_fails"}

\* lines 136-145: s.close() is reached only when connect and getsockname
\* succeed; on the except path the socket is left to the garbage collector
get_local_ip(outcome, collected) ==
  [ip |-> IF outcome = "ok" THEN "10.0.0.5" ELSE "Unknown",
   left_open |-> IF outcome \in {"connect_fails", "getsockname_fails"}
                    /\ ~collected
                 THEN 1 ELSE 0]

\* ------------------------------------------------------------ the machine
CallRecord(variant, F, pre, r) ==
  [variant |-> variant, faulty |-> (F # {}), pre |-> pre,
   ret |-> r.ret, raised |-> r.raised, generated |-> r.generated,
   readOk |-> r.readOk]

NoPayload == [k \in {} |-> None]
NoLog == [level |-> "none", status |-> 0, propagates |-> FALSE]
NoVerdict == [valid |-> FALSE, missing |-> {"none"}, mistyped |-> {}]

InitIdentity ==
  /\ fs \in StorageStates
  /\ uuidTicks = 0
  /\ prevCall = NoCall
  /\ lastCall = NoCall
  /\ nCalls = 0

InitCycle ==
  /\ pc = "start"
  /\ releaseState = "none"
  /\ env_info = NoPayload
  /\ printer_uuid = <<>>
  /\ payload = NoPayload
  /\ validation = "pending"
  /\ attempts = 0
  /\ retryTotal = RetryTotal
  /\ lastResp = NoResp
  /\ log = NoLog
  /\ exitCode = -1
  /\ lastDelay = NoDelay
  /\ sent = NoPayload
  /\ checked_out = "v1"

InitEnv ==
  /\ clock = 0
  /\ open_handles = [files |-> 0, sockets |-> 0]

NoBuild == [env |-> NoPayload, uuid |-> <<>>, now |-> -1]

InitPure ==
  /\ candidate = NoPayload
  /\ built = NoBuild
  /\ verdict = NoVerdict

\* the invocations that race, and one made after both have returned
Racers == {1, 2}
Later == 3
Procs == Racers \cup {Later}

IdleProc == [pc |-> "idle", sawDir |-> FALSE, sawFile |-> FALSE,
             new_uuid |-> <<>>, ret |-> <<>>]

InitRaceVars ==
  race = [proc |-> [p \in Procs |-> IdleProc], initial |-> fs, lastWriter |-> 0]

\* the state one run of main() works on, as one record
CycleRec ==
  [pc |-> pc, releaseState |-> releaseState, env_info |-> env_info,
   printer_uuid |-> printer_uuid, payload |-> payload,
   validation |-> validation, attempts |-> attempts,
   retryTotal |-> retryTotal, lastResp |-> lastResp, log |-> log,
   exitCode |-> exitCode, lastDelay |-> lastDelay, sent |-> sent,
   checked_out |-> checked_out, fs |-> fs, uuidTicks |-> uuidTicks,
   open_handles |-> open_handles]

\* the second cycle starts where the first one does
InitTwin == twin = CycleRec

Init == InitIdentity /\ InitCycle /\ InitPure /\ InitRaceVars /\ InitEnv /\ InitTwin

\* ------------------------------------------- standalone identity calls
\* one invocation of the hardened get_printer_uuid; F is the set of
\* filesystem operations that fail during it
CallGetPrinterUuid ==
  /\ nCalls < MaxCalls
  /\ \E F \in FaultSets :
       LET r == get_printer_uuid(fs, F, uuidTicks + 1)
       IN /\ fs' = r.post
          /\ uuidTicks' = IF r.generated THEN uuidTicks + 1 ELSE uuidTicks
          /\ prevCall' = lastCall
          /\ lastCall' = CallRecord("hardened", F, fs, r)
  /\ nCalls' = nCalls + 1
  /\ open_handles' = [open_handles EXCEPT !.files = HandlesAfterWith(@)]
  /\ UNCHANGED <<cycleVars, pureVars, raceVars, clock, twin>>

\* one invocation of the legacy get_printer_uuid
CallLegacyGetPrinterUuid ==
  /\ nCalls < MaxCalls
  /\ \E F \in FaultSets :
       LET r == legacy_get_printer_uuid(fs, F, uuidTicks + 1)
       IN /\ fs' = r.post
          /\ uuidTicks' = IF r.generated THEN uuidTicks + 1 ELSE uuidTicks
          /\ prevCall' = lastCall
          /\ lastCall' = CallRecord("legacy", F, fs, r)
  /\ nCalls' = nCalls + 1
  /\ open_handles' = [open_handles EXCEPT !.files = HandlesAfterWith(@)]
  /\ UNCHANGED <<cycleVars, pureVars, raceVars, clock, twin>>

Next == CallGetPrinterUuid \/ CallLegacyGetPrinterUuid

Spec == Init /\ [][Next]_vars

\* ------------------------------------------------ main(), step by step
SetCycle(d) ==
  /\ pc' = d.pc
  /\ releaseState' = d.releaseState
  /\ env_info' = d.env_info
  /\ printer_uuid' = d.printer_uuid
  /\ payload' = d.payload
  /\ validation' = d.validation
  /\ attempts' = d.attempts
  /\ retryTotal' = d.retryTotal
  /\ lastResp' = d.lastResp
  /\ log' = d.log
  /\ exitCode' = d.exitCode
  /\ lastDelay' = d.lastDelay
  /\ sent' = d.sent
  /\ checked_out' = d.checked_out
  /\ fs' = d.fs
  /\ uuidTicks' = d.uuidTicks
  /\ open_handles' = d.open_handles

\* what main() leaves alone: the bookkeeping of the standalone calls
MainUnchanged == UNCHANGED <<prevCall, lastCall, nCalls, pureVars, raceVars, clock>>

\* lines 275-286: the release check; "" stands for None
StepCheckRelease(c, latest_tag, current_tag) ==
  [c EXCEPT !.releaseState = ReleaseMessage(latest_tag, current_tag),
            !.checked_out = AfterReleaseCheck(latest_tag, current_tag, @),
            !.pc = "env"]

\* line 288; env_info.py:42 stamps the snapshot with the time of gathering
StepGatherEnvInfo(c, snapshot, now) ==
  [c EXCEPT !.env_info = StampSnapshot(snapshot, now), !.pc = "uuid"]

\* line 289
StepGetPrinterUuid(c, F) ==
  LET r == get_printer_uuid(c.fs, F, c.uuidTicks + 1)
  IN [c EXCEPT !.fs = r.post,
               !.uuidTicks = IF r.generated THEN @ + 1 ELSE @,
               !.printer_uuid = r.ret,
               !.open_handles.files = HandlesAfterWith(@),
               !.pc = "localip"]

\* lines 290-294: the local address, then the test ticket, which changes
\* no state
StepGetLocalIp(c, outcome, collected) ==
  [c EXCEPT !.open_handles.sockets = @ + get_local_ip(outcome, collected).left_open,
            !.pc = "build"]

\* line 296
StepBuildPayload(c, now) ==
  [c EXCEPT !.payload = build_checkin_payload(c.env_info,
                                              JsonStr(c.printer_uuid), now),
            !.pc = "validate"]

\* lines 297-302: a rejected payload is logged and main returns
StepValidatePayload(c) ==
  LET v == validate_payload(c.payload)
  IN [c EXCEPT !.validation = IF v.valid THEN "accepted" ELSE "rejected",
               !.pc = AfterValidation(v.valid),
               !.log = IF v.valid THEN @
                       ELSE [level |-> "error", status |-> 0,
                             propagates |-> FALSE],
               !.exitCode = IF AfterValidation(v.valid) = "done" THEN 0 ELSE @]

\* main returns (exit code 0) unless post_payload lets an exception out
FinishPost(c, result, r) ==
  [c EXCEPT !.log = post_payload(result, r),
            !.pc = IF post_payload(result, r).propagates THEN "crashed"
                   ELSE "done",
            !.exitCode = IF post_payload(result, r).propagates THEN 1 ELSE 0]

\* line 303 -> 264: one attempt of SESSION.post under the mounted Retry;
\* r is how the attempt ends, now the time it is made
StepPostAttempt(c, r, now) ==
  LET a == [c EXCEPT !.attempts = @ + 1, !.lastResp = r,
                     !.sent = TransmittedBody(c.payload, now)]
  IN IF WantsRetry("POST", r, c.retryTotal)
     THEN LET b == [a EXCEPT !.retryTotal = Increment(@)]
          IN IF IsExhausted(b.retryTotal)
             THEN FinishPost(b, "exception", r)
             ELSE [b EXCEPT !.lastDelay = RetrySleep(r, b.attempts)]
     ELSE FinishPost(a, "response", r)

CheckRelease ==
  /\ pc = "start"
  /\ \E latest_tag \in {"", "v1", "v2"}, current_tag \in {"", checked_out} :
       SetCycle(StepCheckRelease(CycleRec, latest_tag, current_tag))
  /\ MainUnchanged /\ UNCHANGED twin

GatherEnvInfo ==
  /\ pc = "env"
  /\ \E snapshot \in Snapshots :
       SetCycle(StepGatherEnvInfo(CycleRec, snapshot, clock))
  /\ MainUnchanged /\ UNCHANGED twin

MainGetPrinterUuid ==
  /\ pc = "uuid"
  /\ \E F \in FaultSets : SetCycle(StepGetPrinterUuid(CycleRec, F))
  /\ MainUnchanged /\ UNCHANGED twin

GetLocalIp ==
  /\ pc = "localip"
  /\ \E outcome \in LocalIpOutcomes, collected \in BOOLEAN :
       SetCycle(StepGetLocalIp(CycleRec, outcome, collected))
  /\ MainUnchanged /\ UNCHANGED twin

BuildPayload ==
  /\ pc = "build"
  /\ SetCycle(StepBuildPayload(CycleRec, clock))
  /\ MainUnchanged /\ UNCHANGED twin

ValidatePayload ==
  /\ pc = "validate"
  /\ SetCycle(StepValidatePayload(CycleRec))
  /\ MainUnchanged /\ UNCHANGED twin

PostAttempt ==
  /\ pc = "post"
  /\ \E r \in Responses : SetCycle(StepPostAttempt(CycleRec, r, clock))
  /\ MainUnchanged /\ UNCHANGED twin

\* time passes while main runs
Tick ==
  /\ pc \notin {"done", "crashed"}
  /\ clock < MaxClock
  /\ clock' = clock + 1
  /\ UNCHANGED <<identityVars, cycleVars, pureVars, raceVars, open_handles, twin>>

MainStep ==
  \/ CheckRelease
  \/ GatherEnvInfo
  \/ MainGetPrinterUuid
  \/ GetLocalIp
  \/ BuildPayload
  \/ ValidatePayload
  \/ PostAttempt

NextMain == MainStep \/ Tick

\* the storage main() is started on: no directory, an empty directory, and
\* an identifier file that is empty, clean or padded, at the modes a default
\* umask gives
MainStorageStates ==
  {f \in StorageStates :
     f.dirExists => /\ f.dirMode = 493
                    /\ f.fileExists => /\ f.fileMode = 420
                                       /\ f.content \in {<<>>, <<"a">>, <<"a", "\n">>}}

InitMain == Init /\ fs \in MainStorageStates

SpecMain == InitMain /\ [][NextMain]_vars

\* main() is sequential code that keeps running: the step it is at is
\* taken, every attempt being bounded by DEFAULT_TIMEOUT (line 46); the
\* cycle of a first run, with the clock standing still
InitFirstRun == Init /\ fs = NoDir

SpecMainFair == InitFirstRun /\ [][MainStep]_vars /\ WF_vars(MainStep)

\* ------------------------------- two cycles that differ in the release
\* the second cycle takes the step the first one takes, on the same input,
\* if it is at that step
TwinAt(at, next) == twin' = IF twin.pc = at THEN next ELSE twin

\* lines 275-286, where each cycle gets a release result of its own
PairCheckRelease ==
  /\ pc = "start"
  /\ \E latest_tag \in {"", "v1", "v2"}, current_tag \in {"", checked_out} :
       SetCycle(StepCheckRelease(CycleRec, latest_tag, current_tag))
  /\ \E latest_tag \in {"", "v1", "v2"}, current_tag \in {"", twin.checked_out} :
       TwinAt("start", StepCheckRelease(twin, latest_tag, current_tag))
  /\ MainUnchanged

PairGatherEnvInfo ==
  /\ pc = "env"
  /\ \E snapshot \in Snapshots :
       /\ SetCycle(StepGatherEnvInfo(CycleRec, snapshot, clock))
       /\ TwinAt("env", StepGatherEnvInfo(twin, snapshot, clock))
  /\ MainUnchanged

PairGetPrinterUuid ==
  /\ pc = "uuid"
  /\ \E F \in FaultSets :
       /\ SetCycle(StepGetPrinterUuid(CycleRec, F))
       /\ TwinAt("uuid", StepGetPrinterUuid(twin, F))
  /\ MainUnchanged

PairGetLocalIp ==
  /\ pc = "localip"
  /\ \E outcome \in LocalIpOutcomes, collected \in BOOLEAN :
       /\ SetCycle(StepGetLocalIp(CycleRec, outcome, collected))
       /\ TwinAt("localip", StepGetLocalIp(twin, outcome, collected))
  /\ MainUnchanged

PairBuildPayload ==
  /\ pc = "build"
  /\ SetCycle(StepBuildPayload(CycleRec, clock))
  /\ TwinAt("build", StepBuildPayload(twin, clock))
  /\ MainUnchanged

PairValidatePayload ==
  /\ pc = "validate"
  /\ SetCycle(StepValidatePayload(CycleRec))
  /\ TwinAt("validate", StepValidatePayload(twin))
  /\ MainUnchanged

PairPostAttempt ==
  /\ pc = "post"
  /\ \E r \in Responses :
       /\ SetCycle(StepPostAttempt(CycleRec, r, clock))
       /\ TwinAt("post", StepPostAttempt(twin, r, clock))
  /\ MainUnchanged

NextRelease ==
  \/ PairCheckRelease
  \/ PairGatherEnvInfo
  \/ PairGetPrinterUuid
  \/ PairGetLocalIp
  \/ PairBuildPayload
  \/ PairValidatePayload
  \/ PairPostAttempt
  \/ Tick

SpecRelease == InitFirstRun /\ [][NextRelease]_vars

\* ------------------------------ the payload functions on drawn inputs
IdentityTexts == {<<"a">>, Uuid1(1), <<"n", "o", "t", "-", "u", "u", "i", "d">>}

InitPayload ==
  /\ InitIdentity /\ fs = NoDir
  /\ InitCycle
  /\ candidate \in CandidatePayloads
  /\ built = NoBuild
  /\ verdict = NoVerdict
  /\ InitRaceVars
  /\ InitEnv
  /\ InitTwin

\* build_checkin_payload applied to a drawn snapshot, identity and clock
ApplyBuild ==
  /\ \E env \in Snapshots, id \in IdentityTexts, now \in 0..MaxClock :
       /\ candidate' = build_checkin_payload(env, JsonStr(id), now)
       /\ built' = [env |-> env, uuid |-> id, now |-> now]
  /\ verdict' = NoVerdict
  /\ UNCHANGED <<identityVars, cycleVars, raceVars, envVars, twin>>

\* validate_schema applied to the candidate
ApplyValidate ==
  /\ verdict = NoVerdict
  /\ verdict' = validate_schema(candidate, PAYLOAD_SCHEMA)
  /\ UNCHANGED <<candidate, built, identityVars, cycleVars, raceVars, envVars, twin>>

NextPayload == ApplyBuild \/ ApplyValidate

SpecPayload == InitPayload /\ [][NextPayload]_vars

\* --------------------- get_printer_uuid, system call by system call
\* The hardened get_printer_uuid with no failing operation, split where
\* another invocation can run in between.  Nothing locks the file.
SetProc(p, rec) == [race EXCEPT !.proc[p] = rec]

RacersDone == \A q \in Racers : race.proc[q].pc = "done"

\* line 206: os.path.exists(base_dir); the later invocation starts only
\* when the racing ones have returned
RaceCheckDir(p) ==
  /\ race.proc[p].pc = "idle"
  /\ p = Later => RacersDone
  /\ race' = SetProc(p, [race.proc[p] EXCEPT !.pc = "dir",
                                             !.sawDir = fs.dirExists])
  /\ UNCHANGED <<fs, uuidTicks, prevCall, lastCall, nCalls, cycleVars, pureVars, envVars, twin>>

\* lines 207-219: create or tighten the directory, by what line 206 saw
RaceEnsureDir(p) ==
  /\ race.proc[p].pc = "dir"
  /\ fs' = EnsureDir(fs, IF race.proc[p].sawDir THEN {} ELSE {"exists_dir"})
  /\ race' = SetProc(p, [race.proc[p] EXCEPT !.pc = "exists"])
  /\ UNCHANGED <<uuidTicks, prevCall, lastCall, nCalls, cycleVars, pureVars, envVars, twin>>

\* line 223: os.path.exists(uuid_file)
RaceCheckFile(p) ==
  /\ race.proc[p].pc = "exists"
  /\ race' = SetProc(p, [race.proc[p] EXCEPT
                           !.sawFile = fs.dirExists /\ fs.fileExists,
                           !.pc = IF fs.dirExists /\ fs.fileExists
                                  THEN "read" ELSE "gen"])
  /\ UNCHANGED <<fs, uuidTicks, prevCall, lastCall, nCalls, cycleVars, pureVars, envVars, twin>>

\* lines 225-228: read what the file holds now; return it if non-empty
RaceRead(p) ==
  /\ race.proc[p].pc = "read"
  /\ race' = SetProc(p,
       IF ReadExisting(fs.content) # <<>>
       THEN [race.proc[p] EXCEPT !.pc = "done", !.ret = ReadExisting(fs.content)]
       ELSE [race.proc[p] EXCEPT !.pc = "gen"])
  /\ UNCHANGED <<fs, uuidTicks, prevCall, lastCall, nCalls, cycleVars, pureVars, envVars, twin>>

\* line 232
RaceGenerate(p) ==
  /\ race.proc[p].pc = "gen"
  /\ uuidTicks' = uuidTicks + 1
  /\ race' = SetProc(p, [race.proc[p] EXCEPT !.pc = "open",
                                             !.new_uuid = Uuid1(uuidTicks + 1)])
  /\ UNCHANGED <<fs, prevCall, lastCall, nCalls, cycleVars, pureVars, envVars, twin>>

\* line 234
RaceOpenForWrite(p) ==
  /\ race.proc[p].pc = "open"
  /\ fs' = OpenForWrite(fs)
  /\ race' = SetProc(p, [race.proc[p] EXCEPT !.pc = "write"])
  /\ open_handles' = [open_handles EXCEPT !.files = @ + 1]
  /\ UNCHANGED <<uuidTicks, prevCall, lastCall, nCalls, cycleVars, pureVars, clock, twin>>

\* line 235 and the close of the file
RaceWrite(p) ==
  /\ race.proc[p].pc = "write"
  /\ fs' = FlushWrite(fs, race.proc[p].new_uuid)
  /\ race' = [SetProc(p, [race.proc[p] EXCEPT !.pc = "chmod"])
                EXCEPT !.lastWriter = p]
  /\ open_handles' = [open_handles EXCEPT !.files = @ - 1]
  /\ UNCHANGED <<uuidTicks, prevCall, lastCall, nCalls, cycleVars, pureVars, clock, twin>>

\* lines 236-244
RaceChmodReturn(p) ==
  /\ race.proc[p].pc = "chmod"
  /\ fs' = ChmodFile(fs, {})
  /\ race' = SetProc(p, [race.proc[p] EXCEPT !.pc = "done",
                                             !.ret = race.proc[p].new_uuid])
  /\ UNCHANGED <<uuidTicks, prevCall, lastCall, nCalls, cycleVars, pureVars, envVars, twin>>

NextRace ==
  \E p \in Procs :
    \/ RaceCheckDir(p)
    \/ RaceEnsureDir(p)
    \/ RaceCheckFile(p)
    \/ RaceRead(p)
    \/ RaceGenerate(p)
    \/ RaceOpenForWrite(p)
    \/ RaceWrite(p)
    \/ RaceChmodReturn(p)

SpecRace == Init /\ [][NextRace]_vars

\* =================================================== properties checked
ConnectionFailures == {"timeout", "refused", "reset"}

\* C1 (Spec): two successive get_printer_uuid calls on one storage
\* location, neither meeting a filesystem failure, both return normally,
\* return the same value, and that value is non-empty.
C1_IdentityIdempotence ==
  (/\ prevCall.variant # "none" /\ lastCall.variant # "none"
   /\ ~prevCall.faulty /\ ~lastCall.faulty)
  => /\ ~prevCall.raised /\ ~lastCall.raised
     /\ prevCall.ret = lastCall.ret
     /\ lastCall.ret # <<>>

\* the first of two fault-free calls found no directory and created the
\* identifier, the second returned it
C1_Witness ==
  /\ prevCall.variant = "hardened" /\ lastCall.variant = "hardened"
  /\ ~prevCall.faulty /\ ~lastCall.faulty
  /\ ~prevCall.pre.dirExists /\ prevCall.generated
  /\ ~lastCall.generated /\ lastCall.ret = prevCall.ret

\* C2 as stated (SpecMain): no cycle makes more than 3 POST attempts, and
\* a cycle that ends on a retryable status has made exactly 3.
C2_ThreeAttempts ==
  /\ attempts <= 3
  /\ (pc = "done" /\ attempts > 0 /\ lastResp.status \in {429, 500, 502, 503, 504})
       => attempts = 3

\* C2 amended (SpecMain): Retry(total=3) allows 3 retries, so 4 attempts.
\* No cycle makes more than 4 attempts; while the request is still running
\* at most 3 have been made; a failed delivery is reported only after the
\* 4th attempt; and a cycle whose last answer is a retryable status has
\* made exactly 4 attempts and reports a failed delivery.
C2_FourAttempts ==
  /\ attempts <= 4
  /\ pc = "post" => attempts <= 3
  /\ (attempts > 0 /\ log.level = "error") => attempts = 4
  /\ (pc = "done" /\ attempts > 0 /\ lastResp.status \in {429, 500, 502, 503, 504})
       => (attempts = 4 /\ log.level = "error")

\* every attempt of the cycle was answered 503 and the delivery failed
C2_Witness ==
  /\ pc = "done" /\ attempts = 4 /\ lastResp.status = 503
  /\ log.level = "error" /\ retryTotal = -1

\* C3 as stated (SpecMain): the request goes on to another attempt only
\* after a status in {429, 500, 502, 503, 504} or a connection failure.
C3_OnlyForcelistRetried ==
  (pc = "post" /\ attempts >= 1)
  => \/ lastResp.kind \in ConnectionFailures
     \/ lastResp.status \in {429, 500, 502, 503, 504}

\* C3 amended (SpecMain): the request goes on to another attempt only
\* after a status in {429, 500, 502, 503, 504}, after a connection failure,
\* or after a 413 that carries a Retry-After header; after any other
\* response the cycle is over with that attempt.
C3_OnlyTransientRetried ==
  (pc = "post" /\ attempts >= 1)
  => \/ lastResp.kind \in ConnectionFailures
     \/ lastResp.status \in {429, 500, 502, 503, 504}
     \/ (lastResp.status = 413 /\ lastResp.retry_after)

\* a 404 ended the cycle after exactly one attempt
C3_Witness ==
  /\ pc = "done" /\ attempts = 1 /\ lastResp.status = 404
  /\ log.level = "info" /\ retryTotal = 3

\* C4 (SpecMain): a POST happens only after validate_payload accepted the
\* payload, which then has four fields of the schema's types; a rejected
\* payload means no POST at all and main returning normally.
C4_ValidateBeforeSend ==
  /\ attempts > 0 =>
       /\ validation = "accepted"
       /\ DOMAIN payload = PayloadKeys
       /\ payload.printer_uuid.type = "string"
       /\ payload.external_ip.type = "string"
       /\ payload.status.type = "string"
       /\ payload.last_checkin.type = "integer"
  /\ pc = "post" => validation = "accepted"
  /\ validation = "rejected" => (attempts = 0 /\ pc = "done" /\ exitCode = 0)

\* the snapshot lacked external_ip, the payload field was null, the payload
\* was rejected and main returned without a POST
C4_Witness ==
  /\ "external_ip" \notin DOMAIN env_info
  /\ payload # NoPayload /\ payload.external_ip.type = "null"
  /\ validation = "rejected" /\ attempts = 0 /\ pc = "done" /\ exitCode = 0

\* C5 (SpecPayload): a payload built from a snapshot whose external_ip and
\* printer_status are strings passes validate_schema; a JSON object lacking
\* any of the four required fields is rejected, the error naming the
\* missing fields.
C5_SchemaRoundTrip ==
  verdict # NoVerdict =>
    /\ (/\ built # NoBuild
        /\ "external_ip" \in DOMAIN built.env
        /\ built.env.external_ip.type = "string"
        /\ "printer_status" \in DOMAIN built.env
        /\ built.env.printer_status.type = "string") => verdict.valid
    /\ (PayloadKeys \ DOMAIN candidate # {}) =>
         (~verdict.valid /\ verdict.missing = PayloadKeys \ DOMAIN candidate)

\* a payload built from a snapshot holding an error string was accepted
C5_Witness ==
  /\ built # NoBuild
  /\ "external_ip" \in DOMAIN built.env
  /\ built.env.external_ip = JsonStr("Error: timeout")
  /\ verdict # NoVerdict /\ verdict.valid

\* C6 as stated (Spec): no get_printer_uuid call raises, whatever
\* filesystem operations fail, and every call returns a non-empty value.
C6_IdentityFallback ==
  lastCall.variant # "none" => (~lastCall.raised /\ lastCall.ret # <<>>)

\* C7 (SpecMain): post_payload never lets an exception out; once the POST
\* is over, however it ended, main has returned and the exit code is 0.
C7_DeliveryNeverFatal ==
  /\ pc # "crashed"
  /\ ~log.propagates
  /\ (attempts > 0 /\ pc # "post") => (pc = "done" /\ exitCode = 0)
  /\ pc = "done" => exitCode = 0
  /\ exitCode \in {-1, 0}

\* every attempt timed out, the failure was logged and main returned
C7_Witness ==
  /\ pc = "done" /\ exitCode = 0 /\ attempts = 4
  /\ lastResp.kind = "timeout" /\ log.level = "error"

\* C8 as stated (Spec): once printer_uuid.txt holds a non-empty
\* identifier, no invocation of the hardened get_printer_uuid changes the
\* content of the file.
C8_WriteOnce ==
  [][(/\ lastCall'.variant = "hardened"
      /\ fs.fileExists /\ Strip(fs.content) # <<>>)
     => (fs'.fileExists /\ fs'.content = fs.content)]_vars

\* C9 as stated (Spec): a fault-free call that finds the identifier file
\* with non-empty content returns that content character for character
\* and leaves it unchanged.
C9_VerbatimRead ==
  (/\ lastCall.variant = "hardened" /\ ~lastCall.faulty
   /\ lastCall.pre.fileExists /\ lastCall.pre.content # <<>>)
  => (lastCall.ret = lastCall.pre.content /\ fs.content = lastCall.pre.content)

\* C9 amended (Spec): when the call reads the identifier file and the
\* content, stripped of leading and trailing whitespace, is non-empty, it
\* returns exactly the stripped content, whatever its format, and leaves
\* the file content unchanged; a fault-free call on such a file does read it.
C9_StrippedRead ==
  /\ (lastCall.variant = "hardened" /\ lastCall.readOk)
       => /\ lastCall.ret = Strip(lastCall.pre.content)
          /\ lastCall.ret # <<>>
          /\ fs.fileExists /\ fs.content = lastCall.pre.content
  /\ (/\ lastCall.variant = "hardened" /\ ~lastCall.faulty
      /\ lastCall.pre.fileExists /\ Strip(lastCall.pre.content) # <<>>)
       => lastCall.readOk

\* the file held " a": the call returned "a" and left " a" in the file
C9_Witness ==
  /\ lastCall.variant = "hardened" /\ lastCall.readOk
  /\ lastCall.pre.content = <<" ", "a">>
  /\ lastCall.ret = <<"a">> /\ fs.content = <<" ", "a">>

\* C10 as stated (SpecPayload): whatever the snapshot, the built payload
\* has exactly the four keys, three strings and an integer.
C10_PayloadShape ==
  built # NoBuild =>
    /\ DOMAIN candidate = PayloadKeys
    /\ candidate.printer_uuid.type = "string"
    /\ candidate.external_ip.type = "string"
    /\ candidate.status.type = "string"
    /\ candidate.last_checkin.type = "integer"

\* C10 amended (SpecPayload): the built payload has exactly the four keys;
\* printer_uuid is the given identity; external_ip and status are the
\* snapshot's external_ip and printer_status, or null where the snapshot
\* lacks the key; last_checkin is the integer clock value; the fields are
\* three strings and an integer whenever the snapshot's external_ip and
\* printer_status are strings.
C10_PayloadShapeAmended ==
  built # NoBuild =>
    /\ DOMAIN candidate = PayloadKeys
    /\ candidate.printer_uuid = [type |-> "string", str |-> built.uuid]
    /\ candidate.external_ip =
         IF "external_ip" \in DOMAIN built.env THEN built.env.external_ip
         ELSE [type |-> "null"]
    /\ candidate.status =
         IF "printer_status" \in DOMAIN built.env
         THEN built.env.printer_status ELSE [type |-> "null"]
    /\ candidate.last_checkin = [type |-> "integer", num |-> built.now]
    /\ (/\ "external_ip" \in DOMAIN built.env
        /\ built.env.external_ip.type = "string"
        /\ "printer_status" \in DOMAIN built.env
        /\ built.env.printer_status.type = "string")
         => /\ candidate.external_ip.type = "string"
            /\ candidate.status.type = "string"

\* a payload built from a complete snapshot and a non-UUID identity
C10_Witness ==
  /\ built # NoBuild /\ built.uuid = <<"a">>
  /\ DOMAIN built.env = EnvKeys
  /\ candidate.external_ip = JsonStr("1.2.3.4")
  /\ candidate.status = JsonStr("OK")
  /\ candidate.last_checkin.type = "integer"

\* C11 as stated (Spec): after a hardened get_printer_uuid call in which
\* no filesystem operation fails, the config directory grants nothing to
\* group or others and printer_uuid.txt is owner-rw-only (0o600).
C11_OwnerOnly ==
  (lastCall.variant = "hardened" /\ ~lastCall.faulty)
  => /\ fs.dirExists /\ fs.dirMode % 64 = 0
     /\ fs.fileExists /\ fs.fileMode = 384

\* C12 as stated (SpecMain): a delivery that ends on a connection failure
\* or on an error status is recorded as a failure carrying that status.
C12_FailureRecorded ==
  (/\ pc = "done" /\ attempts > 0
   /\ (lastResp.kind \in ConnectionFailures \/ lastResp.status >= 400))
  => (log.level = "error" /\ log.status = lastResp.status)

\* C12 amended (SpecMain): the record post_payload writes always carries
\* the status of the last attempt (none for a connection failure); it is a
\* failure record exactly when the retries were exhausted, and then the
\* last attempt ended on a retryable status or a connection failure; a
\* response the policy does not retry, error status or not, is recorded
\* at info level as a response.
C12_FailureWhenExhausted ==
  (pc = "done" /\ attempts > 0)
  => /\ log.status = lastResp.status
     /\ log.level \in {"info", "error"}
     /\ (log.level = "error") <=> (retryTotal < 0)
     /\ log.level = "error" =>
          \/ lastResp.kind \in ConnectionFailures
          \/ lastResp.status \in {429, 500, 502, 503, 504}
     /\ log.level = "info" =>
          /\ lastResp.kind = "status"
          /\ lastResp.status \notin {429, 500, 502, 503, 504}

\* 500 on every attempt: a failure record carrying 500
C12_Witness ==
  /\ pc = "done" /\ attempts = 4 /\ lastResp.status = 500
  /\ log.level = "error" /\ log.status = 500

\* C13 (SpecRace): two get_printer_uuid invocations interleave freely and
\* no operation fails.  Once both have returned, printer_uuid.txt holds one
\* complete identifier; if both generated one, it is the identifier of the
\* invocation that wrote last; an invocation made afterwards returns the
\* identifier in the file; and the two return different values only if the
\* storage held no identifier at the start and both generated one.
C13_FirstRunRace ==
  RacersDone =>
    /\ fs.fileExists /\ Strip(fs.content) # <<>>
    /\ (\E q \in Racers : race.proc[q].new_uuid # <<>>)
         => /\ race.lastWriter \in Racers
            /\ fs.content = race.proc[race.lastWriter].new_uuid
    /\ race.proc[Later].pc = "done"
         => /\ race.proc[Later].ret = Strip(fs.content)
            /\ race.proc[Later].new_uuid = <<>>
    /\ race.proc[1].ret # race.proc[2].ret
         => /\ ~(race.initial.fileExists /\ Strip(race.initial.content) # <<>>)
            /\ race.proc[1].new_uuid = race.proc[1].ret
            /\ race.proc[2].new_uuid = race.proc[2].ret

\* both generated, the first wrote last, the second returned its own
\* value, and the invocation made afterwards returned the first's
C13_Witness ==
  /\ RacersDone /\ race.proc[Later].pc = "done"
  /\ race.proc[1].ret = <<"u", "1">> /\ race.proc[2].ret = <<"u", "2">>
  /\ race.lastWriter = 1
  /\ race.proc[Later].ret = <<"u", "1">> /\ fs.content = <<"u", "1">>

\* C14 as stated: no delay precedes the first attempt, and the backoff slept
\* before retry number n is 0.5 s doubled n - 1 times (0.5, 1.0, 2.0)
C14_BackoffFromBase ==
  /\ attempts = 0 => lastDelay.kind = "none"
  /\ (pc = "post" /\ attempts >= 1 /\ lastDelay.kind = "backoff")
     => lastDelay.tenths = 5 * 2 ^ (attempts - 1)

\* C14 amended: no delay precedes the first attempt or follows a cycle of
\* one attempt; the first retry follows without backoff, the second after
\* 1.0 s and the third after 2.0 s; a response that carries Retry-After is
\* followed by the delay the server asked for instead of the backoff
C14_BackoffSchedule ==
  /\ attempts = 0 => (lastDelay.kind = "none" /\ lastDelay.tenths = 0)
  /\ (pc \in {"done", "crashed"} /\ attempts <= 1) => lastDelay.kind = "none"
  /\ (pc = "post" /\ attempts >= 1)
     => IF lastResp.kind = "status" /\ lastResp.retry_after
        THEN lastDelay.kind = "retry_after"
        ELSE /\ lastDelay.kind = "backoff"
             /\ attempts = 1 => lastDelay.tenths = 0
             /\ attempts = 2 => lastDelay.tenths = 10
             /\ attempts = 3 => lastDelay.tenths = 20
             /\ attempts <= 3

C14_Witness ==
  /\ pc = "post" /\ attempts = 3
  /\ lastResp.kind = "timeout"
  /\ lastDelay.kind = "backoff" /\ lastDelay.tenths = 20

\* C15: the step that builds the payload stamps last_checkin with the clock
\* read at that step, as a number and not the snapshot's last_checkin text;
\* no later step changes the payload; every attempt, the retries included,
\* puts that payload on the wire, whatever the clock reads by then
C15_BuildTimeStamp ==
  [][/\ (pc = "build" /\ pc' # "build")
        => /\ payload'.last_checkin = [type |-> "integer", num |-> clock]
           /\ ("last_checkin" \in DOMAIN env_info
                 => payload'.last_checkin # env_info.last_checkin)
     /\ pc # "build" => payload' = payload
     /\ attempts' # attempts => (sent' = payload /\ sent' = payload')]_vars

C15_Witness ==
  /\ attempts >= 2
  /\ clock = 1
  /\ "last_checkin" \in DOMAIN env_info
  /\ env_info.last_checkin = [type |-> "string", str |-> "0Z"]
  /\ payload.last_checkin = [type |-> "integer", num |-> 0]
  /\ sent = payload

\* C18: between the operations of a cycle no file handle and no socket is
\* open: each was released by the operation that opened it, on the paths
\* where connect, getsockname, read or write raises as on the others
C18_HandlesReleased ==
  open_handles.files = 0 /\ open_handles.sockets = 0

\* C17: once the transport is invoked it reaches a terminal state, recorded
\* as a response (Succeeded) or as a failure (Failed); a retry is entered
\* only while fewer than the cap of 4 attempts have been made; the transport
\* is invoked once per cycle: from validation only, and a finished cycle
\* stays finished
C17_CycleTerminates ==
  /\ (pc = "post") ~> (pc = "done" /\ log.level \in {"info", "error"})
  /\ [](attempts <= 4)
  /\ [][/\ (pc = "post" /\ pc' = "post" /\ attempts' # attempts)
           => (attempts' = attempts + 1 /\ attempts' < 4)
        /\ (pc # "post" /\ pc' = "post")
           => (pc = "validate" /\ attempts = 0 /\ attempts' = 0)
        /\ pc \in {"done", "crashed"} => (pc' = pc /\ attempts' = attempts)]_vars

C17_Witness ==
  /\ pc = "done" /\ attempts = 4 /\ retryTotal = -1
  /\ lastResp.kind = "timeout"
  /\ log.level = "error"

====
